---- MODULE Spec2Model ----
(***************************************************************************)
(* Authentication and access-control core of the hr-ats backend:           *)
(* token codec (app/core/security.py), refresh-session store and token     *)
(* service (app/services/token_service.py), rate limiter and lockout       *)
(* tracker (app/core/rate_limiter.py), login orchestration                 *)
(* (app/services/auth_service.py, app/api/v1/auth.py).                     *)
(*                                                                         *)
(* Time is the wall clock in whole seconds.  A JWT is modelled by its      *)
(* claims and the key that signed it: HS256 is deterministic, so two       *)
(* tokens with equal claims signed by the same key are the same string.    *)
(***************************************************************************)
EXTENDS Integers, Sequences, FiniteSets, TLC

VARIABLES
    now,              \* wall clock, seconds (time.time() / datetime.utcnow())
    users,            \* users table: id -> [is_active, password_hash]
    refresh_tokens,   \* refresh_tokens table: sequence of rows
    issued,           \* the token strings logins have handed to clients so far
    loggedOut,        \* token strings for which revoke_refresh_token returned True
    last,             \* the call that has just completed, when it succeeded: its
                      \* name, its subject, the token it was given and the
                      \* refresh tokens that were exchangeable when it began
    ticks,            \* clock advances so far
    logins,           \* rows inserted into refresh_tokens so far
    requests,         \* RateLimiter.requests: key -> list of request times
    calls,            \* per key, the is_allowed calls made since its history was
                      \* empty (at start or after reset): <<time, result>>
    failed_attempts,  \* LoginAttemptTracker.failed_attempts: key -> list of times
    failures,         \* per identity, the times of the record_failed_attempt calls
                      \* made since the start or the last record_successful_attempt
    lim,              \* threads inside RateLimiter.is_allowed: position and locals
    granted,          \* per key, the number of is_allowed calls that returned True
    req,              \* threads inside the login endpoint: position and locals
    compares,         \* per email, the times of the verify_password calls made
                      \* since the start or the last successful login
    frac,             \* the part of the wall clock below the second
    minted,           \* tokens made with a lifetime of the caller's choice:
                      \* the token, the instant it was made and its lifetime
    created,          \* emails of the users rows inserted by POST /api/v1/users
    purge             \* threads inside cleanup_expired_tokens: position, the
                      \* rows their query returned and the time of the query

tokVars == <<users, refresh_tokens, issued, loggedOut, logins>>
limVars == <<requests, calls>>
lockVars == <<failed_attempts, failures>>
limThreadVars == <<lim, granted>>
loginVars == <<req, compares>>
clockVars == <<frac, minted>>
rbacVars == <<created>>
purgeVars == <<purge>>
vars == <<now, ticks, last, tokVars, limVars, lockVars, limThreadVars, loginVars, clockVars, rbacVars, purgeVars>>
nonTokVars == <<limVars, lockVars, limThreadVars, loginVars, clockVars, rbacVars, purgeVars>>
nonLimVars == <<tokVars, lockVars, limThreadVars, loginVars, clockVars, rbacVars, purgeVars>>
nonLockVars == <<tokVars, limVars, limThreadVars, loginVars, clockVars, rbacVars, purgeVars>>

-----------------------------------------------------------------------------
(* Bounds of the model *)

MaxSessions == 3      \* rows ever inserted into refresh_tokens in one run
MaxTicks == 2         \* clock advances in one run
MaxFailures == 6      \* failures recorded for one identity without a success
NThreads == 2         \* request threads running at once
MaxSessionLogins == 2 \* logins in one run of the session specification
Resolution == 2       \* instants of the wall clock told apart within a second

(* Program constants *)

RATE_LIMIT_PER_MINUTE == 5
window_seconds == 60
max_failed_attempts == 5
lockout_duration == 300

ACCESS_TOKEN_EXPIRE_MINUTES == 15
REFRESH_TOKEN_EXPIRE_DAYS == 7

AccessTTL == ACCESS_TOKEN_EXPIRE_MINUTES * 60
RefreshTTL == REFRESH_TOKEN_EXPIRE_DAYS * 24 * 60 * 60

SECRET_KEY == "secret"
None == "None"

Threads == 1..NThreads
Users == {"u1", "u2"}
Keys == {"ip1", "ip2"}              \* client addresses
Emails == {"a@b.com", "c@d.com"}    \* identities
email == [u1 |-> "a@b.com", u2 |-> "c@d.com"]     \* users.email, unique
LoginEmails == {"a@b.com", "nobody@b.com"}        \* emails that logins present
Passwords == {"pw1", "pw2"}

\* Clock advances: to the next second, and by the life of a refresh token
TokSteps == {1, RefreshTTL}

-----------------------------------------------------------------------------
(* Credential hasher: app/core/security.py *)

get_password_hash(password) == [scheme |-> "bcrypt", of |-> password]

verify_password(plain_password, hashed_password) == hashed_password.of = plain_password

-----------------------------------------------------------------------------
(* Token codec: app/core/security.py *)

\* dict.get(key): None when the key is absent
payload_get(payload, key) == IF key \in DOMAIN payload THEN payload[key] ELSE None

jwt_encode(claims, key) == [payload |-> claims, sig |-> key]

\* jose.jwt.decode: signature first, then exp (expired when exp < now)
jwt_decode(token, key, t) ==
    IF token.sig # key THEN [ok |-> FALSE, error |-> "Signature verification failed"]
    ELSE IF "exp" \in DOMAIN token.payload /\ token.payload["exp"] < t
         THEN [ok |-> FALSE, error |-> "Signature has expired"]
    ELSE [ok |-> TRUE, payload |-> token.payload]

create_access_token(sub, t) ==
    jwt_encode([sub |-> sub, exp |-> t + AccessTTL], SECRET_KEY)

create_refresh_token(sub, t) ==
    jwt_encode([sub |-> sub, exp |-> t + RefreshTTL, type |-> "refresh"], SECRET_KEY)

verify_token(token, t) ==
    LET d == jwt_decode(token, SECRET_KEY, t) IN
    IF ~d.ok THEN [ok |-> FALSE, error |-> "Token verification failed"]
    ELSE IF payload_get(d.payload, "sub") = None
         THEN [ok |-> FALSE, error |-> "Token verification failed"]
    ELSE [ok |-> TRUE, sub |-> d.payload["sub"]]

verify_refresh_token(token, t) ==
    LET d == jwt_decode(token, SECRET_KEY, t) IN
    IF ~d.ok THEN [ok |-> FALSE, error |-> "Refresh token verification failed"]
    ELSE IF payload_get(d.payload, "type") # "refresh"
         THEN [ok |-> FALSE, error |-> "Refresh token verification failed"]
    ELSE IF payload_get(d.payload, "sub") = None
         THEN [ok |-> FALSE, error |-> "Refresh token verification failed"]
    ELSE [ok |-> TRUE, sub |-> d.payload["sub"]]

\* The kind a token was issued as
IsRefreshKind(token) == payload_get(token.payload, "type") = "refresh"
IsAccessKind(token) == ~IsRefreshKind(token)
Kind(token) == IF IsRefreshKind(token) THEN "refresh" ELSE "access"

-----------------------------------------------------------------------------
(* Refresh session store and token service: app/services/token_service.py *)

\* hashlib.sha256(token).hexdigest(): injective on the tokens of the model
hash_token(token) == [sha256 |-> token]

RefreshToken(user_id, token_hash, expires_at) ==
    [user_id |-> user_id, token_hash |-> token_hash,
     expires_at |-> expires_at, is_revoked |-> FALSE]

Rows == 1..Len(refresh_tokens)

\* A query that leaves out the is_revoked condition
ActiveRows_revokedToo(user_id, token_hash, t) ==
    {i \in Rows : /\ refresh_tokens[i].user_id = user_id
                  /\ refresh_tokens[i].token_hash = token_hash
                  /\ refresh_tokens[i].expires_at > t}

\* Rows matched by the query of refresh_access_token
ActiveRows(user_id, token_hash, t) ==
    {i \in Rows : /\ refresh_tokens[i].user_id = user_id
                  /\ refresh_tokens[i].token_hash = token_hash
                  /\ refresh_tokens[i].is_revoked = FALSE
                  /\ refresh_tokens[i].expires_at > t}

\* A query that matches every unrevoked session of the token's subject
UnrevokedRows_ofSubject(token_hash) ==
    {i \in Rows : /\ refresh_tokens[i].user_id = token_hash.sha256.payload["sub"]
                  /\ refresh_tokens[i].is_revoked = FALSE}

\* Rows matched by the query of revoke_refresh_token
UnrevokedRows(token_hash) ==
    {i \in Rows : /\ refresh_tokens[i].token_hash = token_hash
                  /\ refresh_tokens[i].is_revoked = FALSE}

\* A revoke-all that stops after the first matching row
UnrevokedRowsOf_first(user_id) ==
    LET S == {i \in Rows : /\ refresh_tokens[i].user_id = user_id
                           /\ refresh_tokens[i].is_revoked = FALSE}
    IN IF S = {} THEN {} ELSE {CHOOSE i \in S : \A j \in S : i <= j}

\* Rows matched by the query of revoke_all_user_tokens
UnrevokedRowsOf(user_id) ==
    {i \in Rows : /\ refresh_tokens[i].user_id = user_id
                  /\ refresh_tokens[i].is_revoked = FALSE}

\* The outcome of refresh_access_token(refresh_token) in the current state
RefreshOutcome(refresh_token) ==
    LET token_data == verify_refresh_token(refresh_token, now) IN
    IF ~token_data.ok THEN [ok |-> FALSE, error |-> "Invalid refresh token"]
    ELSE IF token_data.sub \notin Users \/ ~users[token_data.sub].is_active
         THEN [ok |-> FALSE, error |-> "User not found or inactive"]
    ELSE IF ActiveRows(token_data.sub, hash_token(refresh_token), now) = {}
         THEN [ok |-> FALSE, error |-> "Refresh token not found or expired"]
    ELSE [ok |-> TRUE, user |-> token_data.sub,
          access_token |-> create_access_token(token_data.sub, now)]

OtherCall == [op |-> "other"]

\* The refresh tokens refresh_access_token would accept in the current state
Exchangeable == {t \in issued : RefreshOutcome(t).ok}

Call(op, user, token, before) ==
    [op |-> op, user |-> user, token |-> token, before |-> before]

\* TokenService.create_tokens(user), reached from a successful authentication
create_tokens(u) ==
    /\ users[u].is_active
    /\ logins < MaxSessions
    /\ logins' = logins + 1
    /\ LET access_token == create_access_token(u, now)
           refresh_token_jwt == create_refresh_token(u, now)
           row == RefreshToken(u, hash_token(refresh_token_jwt), now + RefreshTTL)
       IN /\ refresh_tokens' = Append(refresh_tokens, row)
          /\ issued' = issued \cup {access_token, refresh_token_jwt}
    /\ last' = OtherCall
    /\ UNCHANGED <<now, ticks, users, loggedOut>>
    /\ UNCHANGED nonTokVars

\* TokenService.refresh_access_token(refresh_token)
refresh_access_token(refresh_token) ==
    LET out == RefreshOutcome(refresh_token) IN
    /\ last' = IF out.ok
               THEN Call("refresh_access_token", out.user, refresh_token, {})
               ELSE OtherCall
    /\ UNCHANGED <<now, ticks, logins, users, refresh_tokens, issued, loggedOut>>
    /\ UNCHANGED nonTokVars

\* TokenService.revoke_refresh_token(refresh_token); .first() takes any matching row
revoke_refresh_token(refresh_token) ==
    LET rows == UnrevokedRows(hash_token(refresh_token)) IN
    /\ IF rows # {}
       THEN \E i \in rows :
              /\ refresh_tokens' = [refresh_tokens EXCEPT ![i].is_revoked = TRUE]
              /\ loggedOut' = loggedOut \cup {refresh_token}
       ELSE UNCHANGED <<refresh_tokens, loggedOut>>
    /\ last' = OtherCall
    /\ UNCHANGED <<now, ticks, logins, users, issued>>
    /\ UNCHANGED nonTokVars

\* TokenService.revoke_all_user_tokens(user_id): the rows it flips and its count
revoke_all_user_tokens(user_id) ==
    LET rows == UnrevokedRowsOf(user_id) IN
    /\ refresh_tokens' = [i \in Rows |->
            IF i \in rows THEN [refresh_tokens[i] EXCEPT !.is_revoked = TRUE]
            ELSE refresh_tokens[i]]

\* The outcome of get_current_user(credentials): app/core/auth.py
CurrentUser(token) ==
    LET token_data == verify_token(token, now) IN
    IF ~token_data.ok THEN [ok |-> FALSE, status |-> 401]
    ELSE IF token_data.sub \notin Users \/ ~users[token_data.sub].is_active
         THEN [ok |-> FALSE, status |-> 401]
    ELSE [ok |-> TRUE, user |-> token_data.sub]

\* A protected request (GET /validate): resolves the bearer token and nothing else
get_current_user(token) ==
    LET cur == CurrentUser(token) IN
    /\ last' = IF cur.ok THEN Call("get_current_user", cur.user, token, {})
               ELSE OtherCall
    /\ UNCHANGED <<now, ticks, logins, users, refresh_tokens, issued, loggedOut>>
    /\ UNCHANGED nonTokVars

\* POST /logout-all: app/api/v1/auth.py
logout_all_devices(token) ==
    LET cur == CurrentUser(token) IN
    /\ IF cur.ok
       THEN /\ revoke_all_user_tokens(cur.user)
            /\ last' = Call("logout_all_devices", cur.user, token, Exchangeable)
       ELSE /\ UNCHANGED refresh_tokens
            /\ last' = OtherCall
    /\ UNCHANGED <<now, ticks, logins, users, issued, loggedOut>>
    /\ UNCHANGED nonTokVars

\* POST /change-password -> AuthService.change_password -> UserService.change_password
change_password(token, current_password, new_password) ==
    LET cur == CurrentUser(token) IN
    /\ IF ~cur.ok
       THEN UNCHANGED users /\ last' = OtherCall
       ELSE IF ~verify_password(current_password, users[cur.user].password_hash)
       THEN UNCHANGED users /\ last' = OtherCall
       ELSE /\ users' = [users EXCEPT
                            ![cur.user].password_hash = get_password_hash(new_password)]
            /\ last' = Call("change_password", cur.user, token, Exchangeable)
    /\ UNCHANGED <<now, ticks, logins, refresh_tokens, issued, loggedOut>>
    /\ UNCHANGED nonTokVars

\* TokenService.cleanup_expired_tokens()
cleanup_expired_tokens ==
    LET live(row) == ~(row.expires_at < now) IN
    /\ refresh_tokens' = SelectSeq(refresh_tokens, live)
    /\ last' = OtherCall
    /\ UNCHANGED <<now, ticks, logins, users, issued, loggedOut>>
    /\ UNCHANGED nonTokVars

\* TokenService.cleanup_expired_tokens run by threads: the query
\* (.filter(expires_at < utcnow()).all()) is one statement, and the deletes of
\* the loaded rows, flushed by commit(), another.  A DELETE by primary key of a
\* row that another transaction has deleted matches no row; the ORM warns and
\* goes on.
PurgeIdle == [pc |-> "idle", expired_tokens |-> <<>>, at |-> 0]

\* What identifies a row the query loaded: its is_revoked may change meanwhile
RowKey(row) == [user_id |-> row.user_id, token_hash |-> row.token_hash,
                expires_at |-> row.expires_at]

Expired(row, t) == row.expires_at < t

cleanup_query(i) ==
    LET expired(row) == Expired(row, now) IN
    /\ purge[i].pc = "idle"
    /\ purge' = [purge EXCEPT ![i] = [pc |-> "loaded",
                     expired_tokens |-> SelectSeq(refresh_tokens, expired),
                     at |-> now]]
    /\ last' = OtherCall
    /\ UNCHANGED <<now, ticks, tokVars>>
    /\ UNCHANGED <<limVars, lockVars, limThreadVars, loginVars, clockVars, rbacVars>>

\* count = len(expired_tokens); db.delete(token) for each; db.commit(); return count
cleanup_commit(i) ==
    LET loaded == {RowKey(purge[i].expired_tokens[j]) :
                      j \in 1..Len(purge[i].expired_tokens)}
        stays(row) == RowKey(row) \notin loaded
    IN /\ purge[i].pc = "loaded"
       /\ refresh_tokens' = SelectSeq(refresh_tokens, stays)
       /\ purge' = [purge EXCEPT ![i] = PurgeIdle]
       /\ last' = [op |-> "cleanup_expired_tokens", count |-> Len(purge[i].expired_tokens),
                   at |-> purge[i].at, before |-> refresh_tokens, raised |-> FALSE]
       /\ UNCHANGED <<now, ticks, logins, users, issued, loggedOut>>
       /\ UNCHANGED <<limVars, lockVars, limThreadVars, loginVars, clockVars, rbacVars>>

\* UserService.deactivate_user(user_id)
deactivate_user(u) ==
    /\ users[u].is_active
    /\ users' = [users EXCEPT ![u].is_active = FALSE]
    /\ last' = OtherCall
    /\ UNCHANGED <<now, ticks, logins, refresh_tokens, issued, loggedOut>>
    /\ UNCHANGED nonTokVars

-----------------------------------------------------------------------------
(* Rate limiter: app/core/rate_limiter.py, class RateLimiter *)

\* dict operations
Has(d, key) == key \in DOMAIN d
Put(d, key, value) == (key :> value) @@ d
Del(d, key) == [k \in DOMAIN d \ {key} |-> d[k]]
GetList(d, key) == IF Has(d, key) THEN d[key] ELSE <<>>

\* [req_time for req_time in self.requests[key] if req_time > window_start]
InWindow(req_time, window_start) == req_time > window_start

Evict(list, window_start) ==
    LET keep(req_time) == InWindow(req_time, window_start) IN SelectSeq(list, keep)

\* A limit check that lets the request at the ceiling through
UnderLimit_orEqual(n) == n <= RATE_LIMIT_PER_MINUTE

\* len(self.requests[key]) < self.max_requests
UnderLimit(n) == n < RATE_LIMIT_PER_MINUTE

\* A limiter that appends the time of a denied request too
IsAllowed_recordsDenied(reqs, key, t) ==
    LET kept == Evict(GetList(reqs, key), t - window_seconds)
    IN [ok |-> UnderLimit(Len(kept)), requests |-> Put(reqs, key, Append(kept, t))]

\* RateLimiter.is_allowed(key) at time t on the dict reqs: the result and the dict
IsAllowed(reqs, key, t) ==
    LET kept == Evict(GetList(reqs, key), t - window_seconds)
        ok == UnderLimit(Len(kept))
    IN [ok |-> ok,
        requests |-> Put(reqs, key, IF ok THEN Append(kept, t) ELSE kept)]

\* The record of calls kept per key stops at one call past the ceiling
Noted(log, t, ok) ==
    IF Len(log) <= RATE_LIMIT_PER_MINUTE THEN Append(log, <<t, ok>>) ELSE log

\* RateLimiter.is_allowed(key), run from start to end
is_allowed(key) ==
    LET out == IsAllowed(requests, key, now) IN
    /\ requests' = out.requests
    /\ calls' = [calls EXCEPT ![key] = Noted(@, now, out.ok)]
    /\ last' = Call("is_allowed", key, out.ok, GetList(requests, key))
    /\ UNCHANGED <<now, ticks>>
    /\ UNCHANGED nonLimVars

\* min(self.requests[key])
SeqMin(list) == CHOOSE x \in {list[j] : j \in 1..Len(list)} :
                    \A j \in 1..Len(list) : x <= list[j]

\* RateLimiter.get_retry_after(key) at time t on the dict reqs
get_retry_after(reqs, key, t) ==
    IF ~Has(reqs, key) \/ reqs[key] = <<>> THEN 0
    ELSE LET retry_after == SeqMin(reqs[key]) + window_seconds - t
         IN IF retry_after > 0 THEN retry_after ELSE 0

\* RateLimiter.get_retry_after(key), asked by a caller; it writes nothing
retry_after(key) ==
    /\ last' = [op |-> "get_retry_after", key |-> key,
                out |-> get_retry_after(requests, key, now)]
    /\ UNCHANGED <<now, ticks, limVars>>
    /\ UNCHANGED nonLimVars

\* RateLimiter.reset(key)
reset(key) ==
    /\ requests' = IF Has(requests, key) THEN Del(requests, key) ELSE requests
    /\ calls' = [calls EXCEPT ![key] = <<>>]
    /\ last' = Call("reset", key, None, {})
    /\ UNCHANGED <<now, ticks>>
    /\ UNCHANGED nonLimVars

-----------------------------------------------------------------------------
(* RateLimiter.is_allowed run by request threads.  The endpoints are plain  *)
(* def functions, which the framework runs on a thread pool; the limiter   *)
(* takes no lock, so a thread switch can fall between any two of its       *)
(* statements, and between the read and the write of one statement.        *)
(* self.requests[key].append(now) is taken as one step.                    *)

LimIdle == [pc |-> "idle", key |-> None, t |-> 0, kept |-> <<>>]

\* The thread's own step leaves the clock, the sequential records and the
\* other stores alone
LimFrame ==
    /\ last' = OtherCall
    /\ UNCHANGED <<now, ticks, calls, tokVars, lockVars, loginVars, clockVars, rbacVars, purgeVars>>

\* line 30: now = time.time()
lim_enter(i, key) ==
    /\ lim[i].pc = "idle"
    /\ granted[key] <= RATE_LIMIT_PER_MINUTE
    /\ lim' = [lim EXCEPT ![i] = [pc |-> "has_key", key |-> key, t |-> now, kept |-> <<>>]]
    /\ UNCHANGED <<requests, granted>>
    /\ LimFrame

\* line 34: if key not in self.requests
lim_has_key(i) ==
    /\ lim[i].pc = "has_key"
    /\ lim' = [lim EXCEPT ![i].pc = IF Has(requests, lim[i].key) THEN "filter" ELSE "init_key"]
    /\ UNCHANGED <<requests, granted>>
    /\ LimFrame

\* line 35: self.requests[key] = []
lim_init_key(i) ==
    /\ lim[i].pc = "init_key"
    /\ requests' = Put(requests, lim[i].key, <<>>)
    /\ lim' = [lim EXCEPT ![i].pc = "filter"]
    /\ UNCHANGED granted
    /\ LimFrame

\* lines 38-41, the right-hand side: the list comprehension builds a new list
lim_filter(i) ==
    /\ lim[i].pc = "filter"
    /\ lim' = [lim EXCEPT ![i].pc = "store",
                          ![i].kept = Evict(requests[lim[i].key], lim[i].t - window_seconds)]
    /\ UNCHANGED <<requests, granted>>
    /\ LimFrame

\* line 38, the assignment: self.requests[key] = <the new list>
lim_store(i) ==
    /\ lim[i].pc = "store"
    /\ requests' = Put(requests, lim[i].key, lim[i].kept)
    /\ lim' = [lim EXCEPT ![i].pc = "check"]
    /\ UNCHANGED granted
    /\ LimFrame

\* line 44: if len(self.requests[key]) < self.max_requests; line 48: return False
lim_check(i) ==
    /\ lim[i].pc = "check"
    /\ lim' = IF UnderLimit(Len(requests[lim[i].key]))
              THEN [lim EXCEPT ![i].pc = "append"]
              ELSE [lim EXCEPT ![i] = LimIdle]
    /\ UNCHANGED <<requests, granted>>
    /\ LimFrame

\* lines 45-46: self.requests[key].append(now); return True
lim_append(i) ==
    /\ lim[i].pc = "append"
    /\ requests' = Put(requests, lim[i].key, Append(requests[lim[i].key], lim[i].t))
    /\ granted' = [granted EXCEPT ![lim[i].key] = @ + 1]
    /\ lim' = [lim EXCEPT ![i] = LimIdle]
    /\ LimFrame

-----------------------------------------------------------------------------
(* Lockout tracker: app/core/rate_limiter.py, class LoginAttemptTracker *)

\* A threshold test that needs one failure more than max_failed_attempts
ReachedThreshold_strict(n) == n > max_failed_attempts

\* len(recent_attempts) >= self.max_failed_attempts
ReachedThreshold(n) == n >= max_failed_attempts

\* LoginAttemptTracker.is_locked_out(key) at time t on the dict attempts
IsLockedOut(attempts, key, t) ==
    IF ~Has(attempts, key) THEN FALSE
    ELSE LET recent(attempt) == t - attempt < lockout_duration
         IN ReachedThreshold(Len(SelectSeq(attempts[key], recent)))

is_locked_out(key) == IsLockedOut(failed_attempts, key, now)

\* LoginAttemptTracker.record_failed_attempt(key) at time t on the dict attempts
RecordFailed(attempts, key, t) == Put(attempts, key, Append(GetList(attempts, key), t))

\* LoginAttemptTracker.record_successful_attempt(key) on the dict attempts
RecordSuccessful(attempts, key) == IF Has(attempts, key) THEN Del(attempts, key) ELSE attempts

\* The attempts of a key that is_locked_out and get_lockout_remaining count
\* at time t: [attempt for attempt in ... if now - attempt < self.lockout_duration]
RecentAttempts(attempts, key, t) ==
    LET recent(attempt) == t - attempt < lockout_duration
    IN SelectSeq(GetList(attempts, key), recent)

\* LoginAttemptTracker.get_lockout_remaining(key) at time t on the dict attempts
LockoutRemaining(attempts, key, t) ==
    IF ~IsLockedOut(attempts, key, t) THEN 0
    ELSE LET remaining == SeqMin(RecentAttempts(attempts, key, t)) + lockout_duration - t
         IN IF remaining > 0 THEN remaining ELSE 0

\* A caller asks is_locked_out(key) and get_lockout_remaining(key)
get_lockout_remaining(key) ==
    /\ last' = [op |-> "get_lockout_remaining", key |-> key,
                locked |-> is_locked_out(key),
                out |-> LockoutRemaining(failed_attempts, key, now)]
    /\ UNCHANGED <<now, ticks, lockVars>>
    /\ UNCHANGED nonLockVars

record_failed_attempt(key) ==
    /\ Len(failures[key]) < MaxFailures
    /\ failed_attempts' = RecordFailed(failed_attempts, key, now)
    /\ failures' = [failures EXCEPT ![key] = Append(@, now)]
    /\ last' = Call("record_failed_attempt", key, None, {})
    /\ UNCHANGED <<now, ticks>>
    /\ UNCHANGED nonLockVars

record_successful_attempt(key) ==
    /\ failed_attempts' = RecordSuccessful(failed_attempts, key)
    /\ failures' = [failures EXCEPT ![key] = <<>>]
    /\ last' = Call("record_successful_attempt", key, is_locked_out(key), {})
    /\ UNCHANGED <<now, ticks>>
    /\ UNCHANGED nonLockVars

-----------------------------------------------------------------------------
(* The login endpoint run by request threads: app/api/v1/auth.py login,    *)
(* AuthService.authenticate_user, TokenService.create_tokens.  One step    *)
(* for each call on shared state; the slow verify_password is a step of    *)
(* its own, after the lockout check and before the attempt is recorded.    *)

ReqIdle == [pc |-> "idle", ip |-> None, email |-> None, password |-> None,
            user |-> None, match |-> FALSE, gates |-> {}, did |-> {}]

\* db.query(User).filter(User.email == email).first()
UserByEmail(e) == IF \E u \in Users : email[u] = e
                  THEN CHOOSE u \in Users : email[u] = e ELSE None

\* What a finished login request leaves in last: the status the handler
\* answers with, the status first raised inside it, what the request did
Answer(r, status, raised, did) ==
    [op |-> "login", user |-> r.email, token |-> None,
     before |-> <<failed_attempts, refresh_tokens>>, ip |-> r.ip, status |-> status, raised |-> raised, gates |-> r.gates, did |-> did]

\* Exceptions raised inside the handler, and the responses made from them
NoHeaders == <<>>
HTTPException(status_code, headers) ==
    [exc |-> "HTTPException", status_code |-> status_code, headers |-> headers]
ValueError == [exc |-> "ValueError"]

\* check_rate_limit: raise HTTPException(429, headers={"Retry-After": ...})
RateLimitExceeded(reqs, key, t) ==
    HTTPException(429, "Retry-After" :> get_retry_after(reqs, key, t))

\* check_login_attempts: raise HTTPException(423)
AccountLocked == HTTPException(423, NoHeaders)

\* The except clauses of login: a ValueError is answered 401, and every other
\* Exception, an HTTPException raised inside the try block included, 500
login_except(e) ==
    IF e.exc = "ValueError" THEN HTTPException(401, NoHeaders)
    ELSE HTTPException(500, NoHeaders)

\* The answer made from an exception that left the try block
Refusal(r, e, did) ==
    Answer(r, login_except(e).status_code,
           IF e.exc = "ValueError" THEN 401 ELSE e.status_code, did)
        @@ [headers |-> login_except(e).headers]

InFlight == Cardinality({i \in Threads : req[i].pc # "idle"})

\* The request arrives
login_start(i, ip, e, password) ==
    /\ req[i].pc = "idle"
    /\ logins + InFlight < MaxSessions
    /\ req' = [req EXCEPT ![i] = [ReqIdle EXCEPT !.pc = "check_rate_limit", !.ip = ip,
                                                 !.email = e, !.password = password]]
    /\ last' = OtherCall
    /\ UNCHANGED <<now, ticks, compares, tokVars, limVars, lockVars, limThreadVars, clockVars, rbacVars, purgeVars>>

\* auth.py line 37: check_rate_limit(request).  The HTTPException it raises is
\* caught by the handler's "except Exception" and answered as a 500.
login_check_rate_limit(i) ==
    LET r == req[i]
        out == IsAllowed(requests, r.ip, now)
    IN /\ r.pc = "check_rate_limit"
       /\ requests' = out.requests
       /\ IF out.ok
          THEN /\ req' = [req EXCEPT ![i].pc = "check_login_attempts",
                                     ![i].gates = @ \cup {"rate_limit"}]
               /\ last' = OtherCall
          ELSE /\ req' = [req EXCEPT ![i] = ReqIdle]
               /\ last' = Refusal(r, RateLimitExceeded(out.requests, r.ip, now), r.did)
       /\ UNCHANGED <<now, ticks, calls, compares, tokVars, lockVars, limThreadVars, clockVars, rbacVars, purgeVars>>

\* check_login_attempts raises when the identity is locked out, and the
\* request goes no further; otherwise authenticate_user goes on to the lookup
AfterLockoutCheck_ignored(locked) == "query_user"
AfterLockoutCheck(locked) == IF locked THEN "refused" ELSE "query_user"

\* auth_service.py line 37: check_login_attempts(email)
login_check_login_attempts(i) ==
    LET r == req[i]
        locked == IsLockedOut(failed_attempts, r.email, now)
    IN /\ r.pc = "check_login_attempts"
       /\ IF AfterLockoutCheck(locked) = "refused"
          THEN /\ req' = [req EXCEPT ![i] = ReqIdle]
               /\ last' = Refusal(r, AccountLocked, r.did)
          ELSE /\ req' = [req EXCEPT ![i].pc = AfterLockoutCheck(locked),
                                     ![i].gates = IF locked THEN @ ELSE @ \cup {"lockout"}]
               /\ last' = OtherCall
       /\ UNCHANGED <<now, ticks, compares, tokVars, limVars, lockVars, limThreadVars, clockVars, rbacVars, purgeVars>>

\* auth_service.py lines 40-49: the user is looked up; a missing or inactive
\* user is recorded as a failure and refused
login_query_user(i) ==
    LET r == req[i]
        u == UserByEmail(r.email)
    IN /\ r.pc = "query_user"
       /\ IF u = None \/ ~users[u].is_active
          THEN /\ failed_attempts' = RecordFailed(failed_attempts, r.email, now)
               /\ req' = [req EXCEPT ![i] = ReqIdle]
               /\ last' = Refusal(r, ValueError, r.did \cup {"record_failed_attempt"})
          ELSE /\ req' = [req EXCEPT ![i].pc = "verify_password", ![i].user = u]
               /\ last' = OtherCall
               /\ UNCHANGED failed_attempts
       /\ UNCHANGED <<now, ticks, failures, compares, tokVars, limVars, limThreadVars, clockVars, rbacVars, purgeVars>>

\* auth_service.py line 52: verify_password(password, user.password_hash)
login_verify_password(i) ==
    LET r == req[i] IN
    /\ r.pc = "verify_password"
    /\ req' = [req EXCEPT ![i].pc = "record_login_attempt",
                          ![i].match = verify_password(r.password, users[r.user].password_hash),
                          ![i].did = @ \cup {"verify_password"}]
    /\ compares' = [compares EXCEPT ![r.email] =
                        IF Len(@) <= max_failed_attempts THEN Append(@, now) ELSE @]
    /\ last' = OtherCall
    /\ UNCHANGED <<now, ticks, tokVars, limVars, lockVars, limThreadVars, clockVars, rbacVars, purgeVars>>

\* auth_service.py lines 53-57: record_login_attempt(email, success)
login_record_login_attempt(i) ==
    LET r == req[i] IN
    /\ r.pc = "record_login_attempt"
    /\ IF r.match
       THEN /\ failed_attempts' = RecordSuccessful(failed_attempts, r.email)
            /\ compares' = [compares EXCEPT ![r.email] = <<>>]
            /\ req' = [req EXCEPT ![i].pc = "create_tokens",
                                  ![i].did = @ \cup {"record_successful_attempt"}]
            /\ last' = OtherCall
       ELSE /\ failed_attempts' = RecordFailed(failed_attempts, r.email, now)
            /\ req' = [req EXCEPT ![i] = ReqIdle]
            /\ last' = Refusal(r, ValueError, r.did \cup {"record_failed_attempt"})
            /\ UNCHANGED compares
    /\ UNCHANGED <<now, ticks, failures, tokVars, limVars, limThreadVars, clockVars, rbacVars, purgeVars>>

\* auth_service.py line 60: self.token_service.create_tokens(user)
login_create_tokens(i) ==
    LET r == req[i]
        access_token == create_access_token(r.user, now)
        refresh_token_jwt == create_refresh_token(r.user, now)
        row == RefreshToken(r.user, hash_token(refresh_token_jwt), now + RefreshTTL)
    IN /\ r.pc = "create_tokens"
       /\ refresh_tokens' = Append(refresh_tokens, row)
       /\ issued' = issued \cup {access_token, refresh_token_jwt}
       /\ logins' = logins + 1
       /\ req' = [req EXCEPT ![i] = ReqIdle]
       /\ last' = Answer(r, 200, 200, r.did \cup {"create_tokens"})
       /\ UNCHANGED <<now, ticks, users, loggedOut, compares, limVars, lockVars, limThreadVars, clockVars, rbacVars, purgeVars>>

-----------------------------------------------------------------------------
(* The session endpoints: app/api/v1/auth.py refresh_token and logout, over *)
(* AuthService.refresh_access_token and AuthService.logout                  *)

\* A refresh token signed with another key
Forged == {jwt_encode([sub |-> "u1", exp |-> RefreshTTL, type |-> "refresh"], "not-the-key")}

\* What a finished endpoint call leaves in last
Response(op, token, status, detail, tokens) ==
    [op |-> op, token |-> token, status |-> status, detail |-> detail,
     tokens |-> tokens]

\* str(e) after AuthService's "except Exception": f"Invalid refresh token: {str(e)}"
AuthServiceError(message) == <<"Invalid refresh token", message>>

\* POST /refresh: 200 with the new access token, or 401 with detail=str(e)
refresh_token(refresh_token_jwt) ==
    LET out == RefreshOutcome(refresh_token_jwt) IN
    /\ last' = IF out.ok
               THEN Response("refresh_token", refresh_token_jwt, 200, <<>>, {out.access_token})
               ELSE Response("refresh_token", refresh_token_jwt, 401,
                             AuthServiceError(out.error), {})
    /\ UNCHANGED <<now, ticks, logins, users, refresh_tokens, issued, loggedOut>>
    /\ UNCHANGED nonTokVars

\* POST /logout: revoke_refresh_token; False becomes ValueError and then 401.
\* last keeps the table and the set of revoked tokens that the call found.
logout(refresh_token_jwt) ==
    LET rows == UnrevokedRows(hash_token(refresh_token_jwt)) IN
    /\ IF rows # {}
       THEN \E i \in rows :
              /\ refresh_tokens' = [refresh_tokens EXCEPT ![i].is_revoked = TRUE]
              /\ loggedOut' = loggedOut \cup {refresh_token_jwt}
              /\ last' = Response("logout", refresh_token_jwt, 200, <<>>, {})
                            @@ [before |-> [store |-> refresh_tokens, revoked |-> loggedOut]]
       ELSE /\ UNCHANGED <<refresh_tokens, loggedOut>>
            /\ last' = Response("logout", refresh_token_jwt, 401,
                                AuthServiceError("Invalid refresh token"), {})
                          @@ [before |-> [store |-> refresh_tokens, revoked |-> loggedOut]]
    /\ UNCHANGED <<now, ticks, logins, users, issued>>
    /\ UNCHANGED nonTokVars

-----------------------------------------------------------------------------
(* The login endpoint run from start to end by one request at a time:      *)
(* app/api/v1/auth.py login, AuthService.authenticate_user,                *)
(* TokenService.create_tokens.  db.commit() may raise.                     *)

\* An exception of the database layer, raised by db.commit()
SQLAlchemyError == [exc |-> "SQLAlchemyError"]
NoException == [exc |-> "none"]

\* A commit that keeps the added row although it raised
Committed_anyway(store, row, raises) == Append(store, row)

\* self.db.add(db_refresh_token); self.db.commit(): the table afterwards
Committed(store, row, raises) == IF raises THEN store ELSE Append(store, row)

\* What login does for one request: the exception that leaves the try block
\* if any, the tokens it returns, and the limiter, tracker and table afterwards
LoginOutcome(ip, e, password, commit_raises) ==
    LET gate == IsAllowed(requests, ip, now)
        locked == IsLockedOut(failed_attempts, e, now)
        u == UserByEmail(e)
        access_token == create_access_token(u, now)
        refresh_token_jwt == create_refresh_token(u, now)
        row == RefreshToken(u, hash_token(refresh_token_jwt), now + RefreshTTL)
        untouched == [requests |-> gate.requests, failed_attempts |-> failed_attempts,
                      refresh_tokens |-> refresh_tokens, tokens |-> {},
                      found_locked |-> FALSE]
    IN IF ~gate.ok
       THEN [untouched EXCEPT !.requests = gate.requests]
                @@ [raised |-> RateLimitExceeded(gate.requests, ip, now)]
       ELSE IF AfterLockoutCheck(locked) = "refused"
       THEN [untouched EXCEPT !.found_locked = TRUE] @@ [raised |-> AccountLocked]
       ELSE IF u = None \/ ~users[u].is_active
       THEN [untouched EXCEPT !.failed_attempts = RecordFailed(failed_attempts, e, now),
                              !.found_locked = locked]
                @@ [raised |-> ValueError]
       ELSE IF ~verify_password(password, users[u].password_hash)
       THEN [untouched EXCEPT !.failed_attempts = RecordFailed(failed_attempts, e, now),
                              !.found_locked = locked]
                @@ [raised |-> ValueError]
       ELSE IF commit_raises
       THEN [untouched EXCEPT !.failed_attempts = RecordSuccessful(failed_attempts, e),
                              !.refresh_tokens = Committed(refresh_tokens, row, TRUE),
                              !.found_locked = locked]
                @@ [raised |-> SQLAlchemyError]
       ELSE [untouched EXCEPT !.failed_attempts = RecordSuccessful(failed_attempts, e),
                              !.refresh_tokens = Committed(refresh_tokens, row, FALSE),
                              !.tokens = {access_token, refresh_token_jwt},
                              !.found_locked = locked]
                @@ [raised |-> NoException]

\* POST /login, one request from start to end
login(ip, e, password, commit_raises) ==
    LET out == LoginOutcome(ip, e, password, commit_raises) IN
    /\ Len(out.refresh_tokens) <= MaxSessionLogins
    /\ requests' = out.requests
    /\ failed_attempts' = out.failed_attempts
    /\ refresh_tokens' = out.refresh_tokens
    /\ issued' = issued \cup out.tokens
    /\ logins' = Len(out.refresh_tokens)
    /\ last' = [op |-> "login", user |-> e, ip |-> ip,
                status |-> IF out.raised.exc = "none" THEN 200
                           ELSE login_except(out.raised).status_code,
                exc |-> out.raised.exc,
                tokens |-> out.tokens,
                found_locked |-> out.found_locked,
                commit_raised |-> out.raised.exc = "SQLAlchemyError",
                before |-> [failed_attempts |-> failed_attempts,
                            store |-> refresh_tokens,
                            usable |-> Exchangeable]]
    /\ UNCHANGED <<now, ticks, users, loggedOut, calls, failures>>
    /\ UNCHANGED <<limThreadVars, loginVars, clockVars, rbacVars, purgeVars>>

-----------------------------------------------------------------------------
(* Token lifetimes against the wall clock: app/core/security.py.           *)
(* datetime.utcnow() carries the fraction of the second; the exp claim is  *)
(* written in whole seconds (jwt.encode: timegm(exp.utctimetuple())) and   *)
(* compared with the clock in whole seconds (jwt.decode).  now is the      *)
(* clock in whole seconds, frac its fraction in 1/Resolution seconds.      *)

\* datetime.utcnow(), in 1/Resolution seconds
Instant == now * Resolution + frac

\* timegm(dt.utctimetuple()): the whole seconds of an instant
utc_seconds(instant) == instant \div Resolution

\* timedelta values given as expires_delta, in 1/Resolution seconds
Lifetimes == {Resolution, Resolution + 1}

\* create_access_token(data={"sub": sub}, expires_delta) called at an instant
create_access_token_for(sub, instant, expires_delta) ==
    jwt_encode([sub |-> sub, exp |-> utc_seconds(instant + expires_delta)], SECRET_KEY)

\* A token is made with a lifetime
mint(sub, expires_delta) ==
    /\ minted = {}
    /\ minted' = {[token |-> create_access_token_for(sub, Instant, expires_delta),
                   at |-> Instant, expires_delta |-> expires_delta]}
    /\ last' = OtherCall
    /\ UNCHANGED <<now, ticks, frac, tokVars, limVars, lockVars, limThreadVars, loginVars, rbacVars, purgeVars>>

\* verify_token(token) on a token made before
verify_minted ==
    /\ \E m \in minted :
          last' = [op |-> "verify_token", token |-> m.token, at |-> Instant,
                   ok |-> verify_token(m.token, utc_seconds(Instant)).ok]
    /\ UNCHANGED <<now, ticks, tokVars, limVars, lockVars, limThreadVars, loginVars, clockVars, rbacVars, purgeVars>>

\* The clock advances within the second
SubTick ==
    /\ frac < Resolution - 1
    /\ frac' = frac + 1
    /\ last' = OtherCall
    /\ UNCHANGED <<now, ticks, minted, tokVars, limVars, lockVars, limThreadVars, loginVars, rbacVars, purgeVars>>

-----------------------------------------------------------------------------
(* Permission evaluation: app/middleware/permission_middleware.py          *)
(* _has_permission, app/core/auth.py require_permission, and the users     *)
(* endpoint app/api/v1/users.py create_user.                               *)
(* A string is the sequence of its pieces: words, and the separator ":".   *)

Colon == ":"

\* str.split(":"): the pieces between the separators, empty ones included
RECURSIVE split(_)
split(str) ==
    IF str = <<>> THEN << <<>> >>
    ELSE LET rest == split(Tail(str)) IN
         IF Head(str) = Colon THEN << <<>> >> \o rest
         ELSE << <<Head(str)>> \o Head(rest) >> \o Tail(rest)

\* Capability strings: of the form resource:action, and not
Capabilities ==
    { <<"users", Colon, "read">>, <<"users", Colon, "create">>,
      <<"users", Colon, "delete">>, <<"candidates", Colon, "read">>,
      <<"candidates", Colon, "create">>, <<"anything", Colon, "anything">>,
      <<"users", Colon>>,
      <<"users">>, <<"users", Colon, "create", Colon, "read">>, <<>> }

\* dict.get(key, []) on a dict of lists
dict_get(d, key) == IF key \in DOMAIN d THEN d[key] ELSE {}

\* user.role: None, or a role whose permissions are None or a dict from
\* resource to list of actions
NoRole == [is_none |-> TRUE, permissions_is_none |-> TRUE, permissions |-> <<>>]
NoPermissions == [is_none |-> FALSE, permissions_is_none |-> TRUE, permissions |-> <<>>]
Role(permissions) ==
    [is_none |-> FALSE, permissions_is_none |-> FALSE, permissions |-> permissions]

AllActions == {<<"create">>, <<"read">>, <<"update">>, <<"delete">>}

Roles ==
    { NoRole, NoPermissions, Role(<<>>),
      Role(<<"admin">> :> {}),
      Role(<<"admin">> :> {} @@ <<"users">> :> {<<"read">>}),
      Role(<<"users">> :> {<<"read">>}),
      Role(<<"candidates">> :> {<<"read">>}),
      Role(<<"users">> :> AllActions @@ <<"roles">> :> AllActions),
      Role(<<"users">> :> {} @@ <<"candidates">> :> {<<"read">>, <<"create">>}) }

\* not user.role or not user.role.permissions
Unassigned(role) ==
    role.is_none \/ role.permissions_is_none \/ DOMAIN role.permissions = {}

\* An evaluation that leaves out the admin key
has_permission_noAdmin(role, permission) ==
    IF Unassigned(role) THEN [raised |-> "none", result |-> FALSE]
    ELSE LET parts == split(permission) IN
         IF Len(parts) # 2 THEN [raised |-> "ValueError", result |-> FALSE]
         ELSE [raised |-> "none",
               result |-> parts[2] \in dict_get(role.permissions, parts[1])]

\* PermissionMiddleware._has_permission(user, permission): what it returns, or
\* the exception that leaves it
has_permission(role, permission) ==
    IF Unassigned(role) THEN [raised |-> "none", result |-> FALSE]
    ELSE LET parts == split(permission) IN
         IF Len(parts) # 2 THEN [raised |-> "ValueError", result |-> FALSE]
         ELSE LET user_permissions == dict_get(role.permissions, parts[1]) IN
              IF <<"admin">> \in DOMAIN role.permissions
              THEN [raised |-> "none", result |-> TRUE]
              ELSE [raised |-> "none", result |-> parts[2] \in user_permissions]

\* require_permission(permission).permission_checker(current_user): the status
\* of the HTTPException it raises and the capability its detail names, or 200
permission_checker(role, permission) ==
    IF Unassigned(role) THEN [status |-> 403, names |-> {}]
    ELSE LET parts == split(permission) IN
         IF Len(parts) # 2 THEN [status |-> 500, names |-> {permission}]
         ELSE IF parts[2] \notin dict_get(role.permissions, parts[1])
              THEN [status |-> 403, names |-> {permission}]
              ELSE [status |-> 200, names |-> {}]

\* The middleware evaluates a capability for a user
evaluate(role, permission) ==
    /\ last' = [op |-> "_has_permission", role |-> role, permission |-> permission,
                out |-> has_permission(role, permission)]
    /\ UNCHANGED <<now, ticks, tokVars, limVars, lockVars, limThreadVars, loginVars,
                   clockVars, rbacVars, purgeVars>>

\* A dependency made by require_permission runs for a user
check(role, permission) ==
    /\ last' = [op |-> "permission_checker", role |-> role, permission |-> permission,
                out |-> permission_checker(role, permission)]
    /\ UNCHANGED <<now, ticks, tokVars, limVars, lockVars, limThreadVars, loginVars,
                   clockVars, rbacVars, purgeVars>>

\* users.role of the two users: an administrator and a regular user
role_of == [u1 |-> Role(<<"users">> :> AllActions @@ <<"roles">> :> AllActions),
            u2 |-> Role(<<"users">> :> {<<"read">>} @@ <<"roles">> :> {})]

NewEmails == {"new@example.com", "other@example.com"}

\* POST /api/v1/users/ with a password: current_user = Depends(get_current_user),
\* then the email is checked and the row inserted
create_user(token, new_email) ==
    LET cur == CurrentUser(token)
        exists == new_email \in created \/ \E u \in Users : email[u] = new_email
        status == IF ~cur.ok THEN 401 ELSE IF exists THEN 400 ELSE 200
    IN /\ created' = IF status = 200 THEN created \cup {new_email} ELSE created
       /\ last' = [op |-> "create_user", user |-> IF cur.ok THEN cur.user ELSE None,
                   status |-> status, names |-> {}, before |-> created]
       /\ UNCHANGED <<now, ticks, tokVars, limVars, lockVars, limThreadVars, loginVars,
                      clockVars, purgeVars>>

\* The clock advances
Tick(d) ==
    /\ ticks < MaxTicks
    /\ now' = now + d
    /\ ticks' = ticks + 1
    /\ last' = OtherCall
    /\ UNCHANGED <<tokVars, limVars, lockVars, limThreadVars, loginVars, clockVars, rbacVars, purgeVars>>

-----------------------------------------------------------------------------
(* The token specification: the token service and the endpoints over it *)

Init ==
    /\ now = 0
    /\ ticks = 0
    /\ logins = 0
    /\ last = OtherCall
    /\ requests = <<>>
    /\ calls = [k \in Keys |-> <<>>]
    /\ failed_attempts = <<>>
    /\ failures = [e \in Emails |-> <<>>]
    /\ lim = [i \in Threads |-> LimIdle]
    /\ granted = [k \in Keys |-> 0]
    /\ req = [i \in Threads |-> ReqIdle]
    /\ compares = [e \in LoginEmails |-> <<>>]
    /\ frac = 0
    /\ minted = {}
    /\ created = {}
    /\ purge = [i \in Threads |-> PurgeIdle]
    /\ users = [u \in Users |->
                  [is_active |-> TRUE, password_hash |-> get_password_hash("pw1")]]
    /\ refresh_tokens = <<>>
    /\ issued = {}
    /\ loggedOut = {}

Next ==
    \/ \E u \in Users : create_tokens(u)
    \/ \E t \in issued : refresh_access_token(t)
    \/ \E t \in issued : revoke_refresh_token(t)
    \/ \E t \in issued : logout_all_devices(t)
    \/ cleanup_expired_tokens
    \/ \E d \in TokSteps : Tick(d)

Spec == Init /\ [][Next]_vars

-----------------------------------------------------------------------------
(* The account specification: protected requests, password changes and    *)
(* deactivation, over the sessions that logins create                      *)

\* Clock advances: to the next second, and by the life of an access token
AccountSteps == {1, AccessTTL}

NextAccount ==
    \/ \E u \in Users : create_tokens(u)
    \/ \E t \in issued : refresh_access_token(t)
    \/ \E t \in issued : get_current_user(t)
    \/ \E t \in issued, c \in Passwords, n \in Passwords :
          change_password(t, c, n)
    \/ \E u \in Users : deactivate_user(u)
    \/ \E d \in AccountSteps : Tick(d)

SpecAccount == Init /\ [][NextAccount]_vars

-----------------------------------------------------------------------------
(* The limiter specification: one caller at a time *)

\* Clock advances: to the next second, and to the last second of a window
LimiterSteps == {1, window_seconds - 1}

NextLimiter ==
    \/ \E k \in Keys : is_allowed(k)
    \/ \E k \in Keys : reset(k)
    \/ \E d \in LimiterSteps : Tick(d)

SpecLimiter == Init /\ [][NextLimiter]_vars

-----------------------------------------------------------------------------
(* The retry specification: callers that ask how long to wait and try again *)

NextRetry ==
    \/ \E k \in Keys : is_allowed(k)
    \/ \E k \in Keys : retry_after(k)
    \/ \E d \in LimiterSteps : Tick(d)

SpecRetry == Init /\ [][NextRetry]_vars

-----------------------------------------------------------------------------
(* The lockout specification: one caller at a time *)

\* Clock advances: to the next second, and to the last second of a lockout
LockoutSteps == {1, lockout_duration - 1}

NextLockout ==
    \/ \E e \in Emails : record_failed_attempt(e)
    \/ \E e \in Emails : record_successful_attempt(e)
    \/ \E d \in LockoutSteps : Tick(d)

SpecLockout == Init /\ [][NextLockout]_vars

-----------------------------------------------------------------------------
(* The unlock specification: failures, then callers asking how long the    *)
(* lockout lasts while the clock advances                                  *)

NextUnlock ==
    \/ \E e \in Emails : record_failed_attempt(e)
    \/ \E e \in Emails : get_lockout_remaining(e)
    \/ \E d \in LockoutSteps : Tick(d)

SpecUnlock == Init /\ [][NextUnlock]_vars

-----------------------------------------------------------------------------
(* The limiter-threads specification: concurrent is_allowed calls made     *)
(* within one second                                                       *)

NextLimiterThreads ==
    \/ \E i \in Threads, k \in Keys : lim_enter(i, k)
    \/ \E i \in Threads : lim_has_key(i)
    \/ \E i \in Threads : lim_init_key(i)
    \/ \E i \in Threads : lim_filter(i)
    \/ \E i \in Threads : lim_store(i)
    \/ \E i \in Threads : lim_check(i)
    \/ \E i \in Threads : lim_append(i)

SpecLimiterThreads == Init /\ [][NextLimiterThreads]_vars

-----------------------------------------------------------------------------
(* The login specification: concurrent login requests *)

NextLogin ==
    \/ \E i \in Threads, ip \in Keys, e \in LoginEmails, p \in Passwords :
          login_start(i, ip, e, p)
    \/ \E i \in Threads : login_check_rate_limit(i)
    \/ \E i \in Threads : login_check_login_attempts(i)
    \/ \E i \in Threads : login_query_user(i)
    \/ \E i \in Threads : login_verify_password(i)
    \/ \E i \in Threads : login_record_login_attempt(i)
    \/ \E i \in Threads : login_create_tokens(i)

SpecLogin == Init /\ [][NextLogin]_vars

-----------------------------------------------------------------------------
(* The session specification: the endpoints over sessions, protected       *)
(* requests, deactivation, and both expiries                               *)

\* Clock advances: to the next second, by the life of an access token, and
\* by the life of a refresh token
SessionSteps == {1, AccessTTL, RefreshTTL}

NextSession ==
    \/ \E u \in Users : logins < MaxSessionLogins /\ create_tokens(u)
    \/ \E t \in issued \cup Forged : refresh_token(t)
    \/ \E t \in issued \cup Forged : logout(t)
    \/ \E t \in issued : logout_all_devices(t)
    \/ \E t \in issued \cup Forged : get_current_user(t)
    \/ \E u \in Users : deactivate_user(u)
    \/ cleanup_expired_tokens
    \/ \E d \in SessionSteps : Tick(d)
    \/ SubTick

SpecSession == Init /\ [][NextSession]_vars

-----------------------------------------------------------------------------
(* The expiry specification: tokens made with a lifetime and verified as   *)
(* the clock advances by seconds and within the second                     *)

NextExpiry ==
    \/ \E u \in Users, d \in Lifetimes : mint(u, d)
    \/ verify_minted
    \/ SubTick
    \/ Tick(1)

SpecExpiry == Init /\ [][NextExpiry]_vars

-----------------------------------------------------------------------------
(* The sign-in specification: logins from one address with the right       *)
(* password, whose commit may fail, then refreshes and logouts              *)

NextSignIn ==
    \/ \E u \in Users, c \in BOOLEAN : login("ip1", email[u], "pw1", c)
    \/ \E t \in issued \cup Forged : refresh_token(t)
    \/ \E t \in issued \cup Forged : logout(t)
    \/ Tick(1)

SpecSignIn == Init /\ [][NextSignIn]_vars

-----------------------------------------------------------------------------
(* The locked-login specification: logins for one identity from one        *)
(* address, with right and wrong passwords, across the lockout window       *)

NextLockedLogin ==
    \/ \E password \in Passwords : login("ip1", "a@b.com", password, FALSE)
    \/ \E d \in LockoutSteps : Tick(d)

SpecLockedLogin == Init /\ [][NextLockedLogin]_vars

-----------------------------------------------------------------------------
(* The purge specification: cleanup runs by threads, among logins, logouts  *)
(* and both sides of the refresh expiry                                    *)

NextPurge ==
    \/ \E u \in Users : logins < MaxSessionLogins /\ create_tokens(u)
    \/ \E t \in issued : logout(t)
    \/ \E i \in Threads : cleanup_query(i)
    \/ \E i \in Threads : cleanup_commit(i)
    \/ \E d \in TokSteps : Tick(d)

SpecPurge == Init /\ [][NextPurge]_vars

-----------------------------------------------------------------------------
(* The permission specification: capability evaluation, and the users      *)
(* endpoint called by logged-in users                                      *)

NextPermission ==
    \/ \E u \in Users : logins < MaxSessionLogins /\ create_tokens(u)
    \/ \E r \in Roles, c \in Capabilities : evaluate(r, c)
    \/ \E r \in Roles, c \in Capabilities : check(r, c)
    \/ \E t \in issued \cup Forged, e \in NewEmails \cup {"a@b.com"} : create_user(t, e)

SpecPermission == Init /\ [][NextPermission]_vars

-----------------------------------------------------------------------------
(* Claims about the refresh-session store *)

IssuedRefresh == {t \in issued : IsRefreshKind(t)}

\* C1: a refresh token that revoke_refresh_token has revoked (returned True for)
\* is never again accepted by refresh_access_token, whatever logins, refreshes,
\* logouts, logout-alls and cleanups follow.
C1_RevokedNeverRefreshes ==
    \A t \in loggedOut : ~RefreshOutcome(t).ok

\* C2: a refresh token is accepted by refresh_access_token only once: when a
\* refresh with it has just succeeded, no unrevoked session row for it remains
\* and presenting it again is refused.
C2_SingleUse ==
    last.op = "refresh_access_token" =>
        /\ UnrevokedRows(hash_token(last.token)) = {}
        /\ ~RefreshOutcome(last.token).ok

\* C3: when logout-all has just completed for a subject, refresh_access_token
\* fails for every refresh token issued to that subject before the call, however
\* many sessions it had, and every other subject's refresh token is accepted
\* exactly if it was accepted when the call began.
C3_LogoutAll ==
    last.op = "logout_all_devices" =>
        \A t \in IssuedRefresh :
            IF t.payload["sub"] = last.user
            THEN ~RefreshOutcome(t).ok
            ELSE RefreshOutcome(t).ok = (t \in last.before)

\* C3 witness: a subject with two sessions, both revoked and neither by a
\* logout, while another subject's refresh token is still accepted.
C3_Witness ==
    \E u \in Users :
        /\ last.op = "logout_all_devices" /\ last.user = u
        /\ Cardinality({i \in Rows : /\ refresh_tokens[i].user_id = u
                                     /\ refresh_tokens[i].is_revoked}) >= 2
        /\ \A t \in loggedOut : t.payload["sub"] # u
        /\ \E t \in IssuedRefresh : t.payload["sub"] # u /\ RefreshOutcome(t).ok

\* C4: when a password change has just succeeded for a subject, every session
\* of that subject that was active before the call is revoked, and no refresh
\* token that was exchangeable before the call is accepted for that subject.
C4_PasswordChangeRevokes ==
    last.op = "change_password" =>
        /\ \A i \in Rows :
              (refresh_tokens[i].user_id = last.user /\ refresh_tokens[i].expires_at > now)
                 => refresh_tokens[i].is_revoked
        /\ \A t \in last.before :
              t.payload["sub"] = last.user => ~RefreshOutcome(t).ok

\* C5: a token is accepted only by the operation matching its kind:
\* get_current_user accepts no token of kind refresh, and refresh_access_token
\* accepts no token of kind access.
C5_KindSeparation ==
    /\ last.op = "get_current_user" => IsAccessKind(last.token)
    /\ last.op = "refresh_access_token" => IsRefreshKind(last.token)

-----------------------------------------------------------------------------
(* Claims about the rate limiter and the lockout tracker *)

\* C6: for any key starting from an empty history (at start or after reset),
\* each of the first RATE_LIMIT_PER_MINUTE calls of is_allowed made less than
\* window_seconds after the first returns True, and the next call, if also made
\* less than window_seconds after the first, returns False, whatever calls are
\* made for other keys in between; the first call after reset(key) is allowed.
C6_FirstNAllowed ==
    \A k \in Keys : \A i \in 1..Len(calls[k]) :
        LET within == calls[k][i][1] - calls[k][1][1] < window_seconds IN
        /\ (i <= RATE_LIMIT_PER_MINUTE /\ within) => calls[k][i][2]
        /\ (i = RATE_LIMIT_PER_MINUTE + 1 /\ within) => ~calls[k][i][2]

\* C6 witness: the call past the ceiling was made inside the window and was
\* refused, while the other key was being used too.
C6_Witness ==
    \E k \in Keys :
        /\ Len(calls[k]) = RATE_LIMIT_PER_MINUTE + 1
        /\ calls[k][RATE_LIMIT_PER_MINUTE + 1][1] - calls[k][1][1] < window_seconds
        /\ ~calls[k][RATE_LIMIT_PER_MINUTE + 1][2]
        /\ \E j \in Keys \ {k} : Len(calls[j]) > 0

\* C8: for any identity, is_locked_out is False while fewer than
\* max_failed_attempts failures have been recorded since the start or the last
\* success, True once max_failed_attempts failures have been recorded all less
\* than lockout_duration ago, and False right after record_successful_attempt;
\* failures recorded for other identities do not enter into it.
C8_Lockout ==
    /\ \A e \in Emails :
          LET n == Len(failures[e]) IN
          /\ n < max_failed_attempts => ~is_locked_out(e)
          /\ (n = max_failed_attempts /\ now - failures[e][1] < lockout_duration)
                => is_locked_out(e)
    /\ last.op = "record_successful_attempt" => ~is_locked_out(last.user)

\* C8 witness: a success has just cleared an identity that was locked out,
\* while another identity has failures of its own on record.
C8_Witness ==
    /\ last.op = "record_successful_attempt"
    /\ last.token = TRUE
    /\ \E e \in Emails \ {last.user} : Len(failures[e]) > 0

\* C7: under any interleaving of concurrent is_allowed calls for one key made
\* within one window, at most RATE_LIMIT_PER_MINUTE of them return True, and
\* the timestamp of every call that returned True is in the key's history.
C7_AtomicCheckAndRecord ==
    \A k \in Keys :
        /\ granted[k] <= RATE_LIMIT_PER_MINUTE
        /\ granted[k] <= Len(GetList(requests, k))

-----------------------------------------------------------------------------
(* Claims about concurrent login requests *)

\* C9: under any interleaving of concurrent login requests for one email, at
\* most max_failed_attempts password comparisons are made against that
\* identity within any lockout_duration seconds without a successful login in
\* between: of any max_failed_attempts + 1 comparisons in a row, the last is
\* at least lockout_duration after the first.
C9_AtMostFiveComparisons ==
    \A e \in LoginEmails :
        \A k \in 1..Len(compares[e]) :
            k + max_failed_attempts <= Len(compares[e]) =>
                compares[e][k + max_failed_attempts] - compares[e][k] >= lockout_duration

\* C10: a request compares the password only after the rate limiter allowed
\* its address and the lockout check passed for its email, both in that same
\* request; a request refused by one of the gates has compared nothing,
\* recorded no attempt and created no session, and its refusal leaves the
\* lockout history and the session store as they were.
C10_GatesBeforeComparison ==
    /\ \A i \in Threads :
          req[i].pc \in {"verify_password", "record_login_attempt", "create_tokens"}
              => req[i].gates = {"rate_limit", "lockout"}
    /\ last.op = "login" =>
          /\ "verify_password" \in last.did => last.gates = {"rate_limit", "lockout"}
          /\ last.raised \in {429, 423} =>
                /\ last.did = {}
                /\ last.before = <<failed_attempts, refresh_tokens>>

\* C10 witness: a request has just been refused by the lockout gate while
\* another one, past both gates, has compared a password
C10_Witness ==
    /\ last.op = "login" /\ last.raised = 423 /\ last.did = {}
    /\ last.gates = {"rate_limit"}
    /\ \E i \in Threads : "verify_password" \in req[i].did
    /\ refresh_tokens # <<>>

-----------------------------------------------------------------------------
(* Claims about the answers of the login endpoint *)

\* C11: a login request that the rate limiter refuses (the request past the
\* ceiling from one address within the window) is answered with status 429 and
\* a Retry-After header of positive value.
C11_RateLimitedAnswer ==
    (last.op = "login" /\ last.raised = 429) =>
        /\ last.status = 429
        /\ "Retry-After" \in DOMAIN last.headers
        /\ last.headers["Retry-After"] > 0

\* C12: a login attempt for an email that has max_failed_attempts failures
\* less than lockout_duration old, the correct password included, is answered
\* with status 423 and issues no tokens.
C12_LockedAnswer ==
    (last.op = "login" /\ last.raised = 423) =>
        /\ last.status = 423
        /\ "create_tokens" \notin last.did
        /\ last.before[2] = refresh_tokens

-----------------------------------------------------------------------------
(* Claims about the session endpoints *)

\* The session rows that make a refresh token exchangeable at the present time
LiveSessions(t) ==
    {i \in Rows : /\ refresh_tokens[i].token_hash = hash_token(t)
                  /\ refresh_tokens[i].user_id = t.payload["sub"]
                  /\ refresh_tokens[i].is_revoked = FALSE
                  /\ refresh_tokens[i].expires_at > now}

\* A token with the service's signature, of kind refresh, not past its exp
GenuineRefresh(t) ==
    /\ t.sig = SECRET_KEY
    /\ "type" \in DOMAIN t.payload /\ t.payload["type"] = "refresh"
    /\ ~(t.payload["exp"] < now)

\* C13: the refresh endpoint returns an access token only if the presented
\* token verifies as an unexpired refresh token, its subject exists and is
\* active, and a session row for the token's hash and subject is unrevoked
\* with expires_at > now; a refresh for a deactivated subject is answered 401
\* and issues nothing.
C13_RefreshConditions ==
    last.op = "refresh_token" =>
        LET t == last.token
            sub == t.payload["sub"]
        IN /\ last.tokens # {} =>
                 /\ last.status = 200
                 /\ GenuineRefresh(t)
                 /\ sub \in Users /\ users[sub].is_active
                 /\ LiveSessions(t) # {}
           /\ (sub \in Users /\ ~users[sub].is_active) =>
                 last.status = 401 /\ last.tokens = {}
           /\ last.status = 200 => last.tokens # {}

\* C13 witness: a refresh has just been refused for a subject deactivated
\* after login, whose token and session row are otherwise good
C13_Witness ==
    /\ last.op = "refresh_token" /\ last.status = 401 /\ last.tokens = {}
    /\ GenuineRefresh(last.token)
    /\ LiveSessions(last.token) # {}
    /\ ~users[last.token.payload["sub"]].is_active

-----------------------------------------------------------------------------
(* Claims about token lifetimes *)

\* C14: for every subject and every lifetime, a token made at an instant
\* verifies at every instant before that instant plus the lifetime, and is
\* rejected at every instant after it.
C14_ExpiryBoundary ==
    last.op = "verify_token" =>
        \A m \in minted :
            /\ last.at < m.at + m.expires_delta => last.ok
            /\ last.at > m.at + m.expires_delta => ~last.ok

\* C15: whatever the state of the session rows, the access token of an
\* existing, active subject resolves at every instant before its embedded
\* expiry, and at no instant after it.
C15_AccessTokenBoundedByExpiry ==
    \A t \in issued :
        (IsAccessKind(t) /\ users[t.payload["sub"]].is_active) =>
            /\ Instant < t.payload["exp"] * Resolution => CurrentUser(t).ok
            /\ Instant > t.payload["exp"] * Resolution => ~CurrentUser(t).ok

\* The access tokens handed to a subject so far
AccessTokensOf(u) == {t \in issued : IsAccessKind(t) /\ t.payload["sub"] = u}

\* C16: when a logout with a subject's refresh token has just succeeded, and
\* when a logout-all of a subject has just completed, every access token
\* issued to that subject before is refused on protected requests.
C16_AccessTokensDieOnLogout ==
    /\ (last.op = "logout" /\ last.status = 200) =>
          \A t \in AccessTokensOf(last.token.payload["sub"]) : ~CurrentUser(t).ok
    /\ last.op = "logout_all_devices" =>
          \A t \in AccessTokensOf(last.user) : ~CurrentUser(t).ok

-----------------------------------------------------------------------------
(* Claims about permission evaluation *)

\* A capability string of the form resource:action: exactly one separator
WellFormed(permission) ==
    Cardinality({j \in 1..Len(permission) : permission[j] = Colon}) = 1

\* The words before and after the separator of a well-formed capability
ResourceOf(permission) ==
    SubSeq(permission, 1, (CHOOSE j \in 1..Len(permission) : permission[j] = Colon) - 1)
ActionOf(permission) ==
    SubSeq(permission, (CHOOSE j \in 1..Len(permission) : permission[j] = Colon) + 1,
           Len(permission))

\* C17: for every user and every well-formed capability, _has_permission
\* returns True exactly if the user has a role with a non-empty permission set
\* and that set has the key "admin" or lists the action under the resource; a
\* user with no role or an empty permission set is denied.
C17_HasPermission ==
    (last.op = "_has_permission" /\ WellFormed(last.permission)) =>
        LET role == last.role
            assigned == /\ ~role.is_none /\ ~role.permissions_is_none
                        /\ role.permissions # <<>>
            resource == ResourceOf(last.permission)
            action == ActionOf(last.permission)
        IN /\ last.out.raised = "none"
           /\ last.out.result <=>
                 /\ assigned
                 /\ \/ <<"admin">> \in DOMAIN role.permissions
                    \/ /\ resource \in DOMAIN role.permissions
                       /\ action \in role.permissions[resource]

\* C17 witness: the admin key has just allowed a capability whose resource the
\* role does not list
C17_Witness ==
    /\ last.op = "_has_permission" /\ WellFormed(last.permission)
    /\ last.out.result
    /\ ResourceOf(last.permission) \notin DOMAIN last.role.permissions

\* The capability the users endpoint's create operation requires
UsersCreate == <<"users", Colon, "create">>

\* C18: a resolved, active subject whose role lacks users:create is refused by
\* POST /api/v1/users with 403 naming the capability, and no row is inserted.
C18_LackingCapabilityRefused ==
    (/\ last.op = "create_user"
     /\ last.user \in Users
     /\ ~has_permission(role_of[last.user], UsersCreate).result) =>
        /\ last.status = 403
        /\ last.names = {UsersCreate}
        /\ created = last.before

\* C19: for every subject, one with no role or no permission set included,
\* evaluating a capability string that is not of the form resource:action
\* raises an error; neither evaluator answers with a deny decision (False, 403).
C19_MalformedRaises ==
    /\ (last.op = "_has_permission" /\ ~WellFormed(last.permission)) =>
           last.out.raised # "none"
    /\ (last.op = "permission_checker" /\ ~WellFormed(last.permission)) =>
           last.out.status \notin {200, 403}

-----------------------------------------------------------------------------
(* Claims about the refresh endpoint *)

\* C20: every failing refresh yields the same user-facing error: whenever
\* POST /refresh has just failed, any other refresh token that fails in the
\* same state is answered with the same status and the same detail.
C20_RefreshFailuresIndistinguishable ==
    (last.op = "refresh_token" /\ last.status # 200) =>
        \A t \in issued \cup Forged :
            ~RefreshOutcome(t).ok =>
                /\ last.status = 401
                /\ last.detail = AuthServiceError(RefreshOutcome(t).error)

-----------------------------------------------------------------------------
(* Claims about waiting times *)

\* C21: get_retry_after(key) returns 0 whenever an is_allowed(key) call at that
\* instant would succeed, and otherwise the time until the oldest timestamp
\* still inside the window leaves it.
C21_RetryAfter ==
    last.op = "get_retry_after" =>
        IF IsAllowed(requests, last.key, now).ok
        THEN last.out = 0
        ELSE last.out = SeqMin(Evict(GetList(requests, last.key), now - window_seconds))
                            + window_seconds - now

\* max(list)
SeqMax(list) == CHOOSE x \in {list[j] : j \in 1..Len(list)} :
                    \A j \in 1..Len(list) : x >= list[j]

\* C22: a locked identity returns to Clear without any success.  Take the
\* moment t0 of the identity's last failure, at which it was locked, and the
\* oldest failure counted toward that lockout.  When a caller asks later, with
\* no failure recorded since: once 300 s have elapsed since that oldest failure
\* is_locked_out is False and get_lockout_remaining is 0, and until then the
\* identity is locked and get_lockout_remaining is the time left until that
\* failure leaves the window.
C22_LockoutExpires ==
    (last.op = "get_lockout_remaining" /\ Has(failed_attempts, last.key)) =>
        LET t0 == SeqMax(failed_attempts[last.key])
            oldest == SeqMin(RecentAttempts(failed_attempts, last.key, t0))
        IN IsLockedOut(failed_attempts, last.key, t0) =>
             IF now - oldest >= lockout_duration
             THEN ~last.locked /\ last.out = 0
             ELSE last.locked /\ last.out = oldest + lockout_duration - now

-----------------------------------------------------------------------------
(* Claims about revocation, purging and the rows of the store *)

\* The rows of a store that revoke_refresh_token could flip for a token
Flippable(store, token) ==
    {i \in 1..Len(store) :
        store[i].token_hash = hash_token(token) /\ ~store[i].is_revoked}

\* C23: revoke_refresh_token returns True exactly when it flips an unrevoked
\* session of the token to revoked; revoking a token again, or a token that was
\* never issued, returns False and leaves the store unchanged, and logout
\* answers that case with the authentication failure "Invalid refresh token",
\* never with success.
C23_RevokeOnce ==
    last.op = "logout" =>
        LET store == last.before.store
            flipped == {i \in Flippable(store, last.token) :
                          refresh_tokens =
                              [store EXCEPT ![i].is_revoked = TRUE]}
        IN /\ (last.status = 200) <=> (flipped # {})
           /\ (last.token \in last.before.revoked \/ last.token \notin issued) =>
                 /\ last.status = 401
                 /\ last.detail = AuthServiceError("Invalid refresh token")
                 /\ refresh_tokens = store

\* C24: a run of cleanup_expired_tokens deletes exactly the rows that were
\* expired (expires_at < now) at its query, revoked or not, leaves every other
\* row unchanged, returns the number of rows it deleted and raises no error,
\* also when runs repeat or overlap; a run right after another returns 0.
C24_Cleanup ==
    last.op = "cleanup_expired_tokens" =>
        LET unexpired(row) == ~Expired(row, last.at) IN
        /\ refresh_tokens = SelectSeq(last.before, unexpired)
        /\ last.count = Len(last.before) - Len(refresh_tokens)
        /\ ~last.raised

\* C25: in every reachable state no two rows of refresh_tokens hold the same
\* token_hash, whatever logins were made, two logins of one subject within the
\* same clock second included.
C25_HashUnique ==
    \A i, j \in Rows :
        i # j => refresh_tokens[i].token_hash # refresh_tokens[j].token_hash

-----------------------------------------------------------------------------
(* Claims about logins and sessions *)

\* C26: when persisting the session row fails during a login, the login
\* reports failure, returns neither the access token nor the refresh token,
\* and leaves no row for that attempt.
C26_NoPartialLogin ==
    (last.op = "login" /\ last.commit_raised) =>
        /\ last.status >= 400
        /\ last.tokens = {}
        /\ refresh_tokens = last.before.store

\* C26 witness: a login with the right password whose commit failed, made by
\* a subject that already has a session
C26_Witness ==
    /\ last.op = "login" /\ last.commit_raised
    /\ last.status = 500
    /\ \E i \in Rows : email[refresh_tokens[i].user_id] = last.user

\* The rows of a subject in a table
RowsOf(store, u) == {i \in 1..Len(store) : store[i].user_id = u}

\* The refresh tokens that a table with the current users and clock makes
\* exchangeable
UsableIn(store) ==
    {t \in IssuedRefresh :
        /\ verify_refresh_token(t, now).ok
        /\ users[t.payload["sub"]].is_active
        /\ \E i \in RowsOf(store, t.payload["sub"]) :
              /\ store[i].token_hash = hash_token(t)
              /\ ~store[i].is_revoked
              /\ store[i].expires_at > now}

\* C27: each successful login adds exactly one session row for its subject and
\* returns a refresh token that refreshes, leaving the sessions usable before
\* it usable; so after k logins of a subject with no revocation all k rows are
\* active and every refresh token returned to it refreshes.  A logout revokes
\* exactly one session of the token it was given and leaves every other
\* refresh token that was usable before it usable.
C27_SessionsPerLogin ==
    /\ (last.op = "login" /\ last.status = 200) =>
          LET u == UserByEmail(last.user) IN
          /\ Cardinality(RowsOf(refresh_tokens, u))
                = Cardinality(RowsOf(last.before.store, u)) + 1
          /\ \A t \in last.tokens : IsRefreshKind(t) => RefreshOutcome(t).ok
          /\ last.before.usable \subseteq Exchangeable
    /\ \A u \in Users :
          (\A t \in loggedOut : t.payload["sub"] # u) =>
              /\ \A i \in RowsOf(refresh_tokens, u) :
                    ~refresh_tokens[i].is_revoked /\ refresh_tokens[i].expires_at > now
              /\ \A t \in IssuedRefresh : t.payload["sub"] = u => RefreshOutcome(t).ok
    /\ (last.op = "logout" /\ last.status = 200) =>
          /\ \E i \in Flippable(last.before.store, last.token) :
                refresh_tokens = [last.before.store EXCEPT ![i].is_revoked = TRUE]
          /\ \A t \in UsableIn(last.before.store) :
                t # last.token => RefreshOutcome(t).ok

\* C27 witness: a subject logged in twice, at different seconds; a logout with
\* one of its refresh tokens has just succeeded, that token no longer
\* refreshes and the other one still does
C27_Witness ==
    /\ last.op = "logout" /\ last.status = 200
    /\ ~RefreshOutcome(last.token).ok
    /\ Cardinality(RowsOf(refresh_tokens, last.token.payload["sub"])) = 2
    /\ \E t \in IssuedRefresh :
          /\ t # last.token
          /\ t.payload["sub"] = last.token.payload["sub"]
          /\ RefreshOutcome(t).ok

-----------------------------------------------------------------------------
(* Claims about the two permission evaluators *)

\* C28: the two evaluators agree: for every user and every well-formed
\* capability, the require_permission dependency admits the user exactly when
\* _has_permission returns True.
C28_EvaluatorsAgree ==
    /\ (last.op = "permission_checker" /\ WellFormed(last.permission)) =>
          ((last.out.status = 200) <=> has_permission(last.role, last.permission).result)
    /\ (last.op = "_has_permission" /\ WellFormed(last.permission)) =>
          (last.out.result <=> (permission_checker(last.role, last.permission).status = 200))

-----------------------------------------------------------------------------
(* Claims about logins during a lockout *)

\* C29: a login attempt made while its identity is locked out is rejected
\* before any failure is recorded: it returns no token and leaves the
\* identity's failure history unchanged.  So attempts cannot extend a lockout:
\* whenever an identity is locked, it is no longer locked 300 s after the
\* oldest failure counted, whatever attempts arrive meanwhile.
C29_LockedAttemptsLeaveNoTrace ==
    /\ (last.op = "login" /\ last.found_locked) =>
          /\ last.status # 200
          /\ last.tokens = {}
          /\ failed_attempts = last.before.failed_attempts
    /\ \A e \in DOMAIN failed_attempts :
          IsLockedOut(failed_attempts, e, now) =>
              ~IsLockedOut(failed_attempts, e,
                           SeqMin(RecentAttempts(failed_attempts, e, now)) + lockout_duration)

\* C29 witness: an attempt has just been rejected for an identity that was
\* locked 299 s earlier
C29_Witness ==
    /\ last.op = "login" /\ last.found_locked
    /\ last.exc = "HTTPException"
    /\ now = SeqMin(RecentAttempts(failed_attempts, last.user, now)) + lockout_duration - 1

-----------------------------------------------------------------------------
(* Claims about retrying while limited *)

\* C30: a denied is_allowed(key) call records nothing: it leaves the key with
\* the timestamps it had, less those that have left the window.  So a client
\* that keeps retrying is let through again: a call made when the key's oldest
\* recorded request is more than 60 s old is allowed.
C30_DeniedRecordsNothing ==
    last.op = "is_allowed" =>
        /\ ~last.token =>
              requests[last.user] = Evict(last.before, now - window_seconds)
        /\ (last.before # <<>> /\ now - SeqMin(last.before) > window_seconds) =>
              last.token

\* C30 witness: a key that was denied at its ceiling has just been allowed
\* again, its five recorded requests being more than 60 s old
C30_Witness ==
    /\ last.op = "is_allowed" /\ last.token = TRUE
    /\ Len(last.before) = RATE_LIMIT_PER_MINUTE
    /\ now - SeqMin(last.before) > window_seconds
    /\ \E j \in 1..Len(calls[last.user]) : ~calls[last.user][j][2]

====
